---- MODULE Spec2Model ----
(***************************************************************************)
(* PSPNetArchitecture (architectures/pspnet_architecture.py): the shapes,  *)
(* the dictionary keys and the call structure of preprocess, predict,      *)
(* loss and restore_map.  A tensor is its static shape (batch left out),   *)
(* its dtype and the chain of operations that produced it; numeric values  *)
(* of activations are not modelled.                                        *)
(***************************************************************************)
EXTENDS Integers, Sequences, FiniteSets, TLC

\* ---- bounds of the model
MaxDim == 17       \* input images are H x W with 1 <= H, W <= MaxDim
MaxFactor == 2     \* pooling factors are 1..MaxFactor
MaxFactors == 2    \* at most MaxFactors pooling factors are configured
MaxVars == 3       \* at most MaxVars variables in the graph

\* ---- configuration values and program constants
num_classes == 19
filter_scale == 1
backbone_channels == 2048
aux_channels == 1024
psp_branch_channels == 512
output_zoom_factor == 8
features_stride == 8

VARIABLES
    self,              \* the PSPNetArchitecture object (its fields)
    inputs,            \* the image tensor handed to preprocess / predict
    global_variables,  \* names of the graph's variables, in creation order
    prediction_dict,   \* the dictionary the caller got from the last predict
    called,            \* the method called last
    raised,            \* the exception it raised, or "none"
    returned,          \* the value it returned
    psp_trace,         \* input, branch_outputs and output of the last PSP module
    keys_read,         \* keys of prediction_dict read by the last loss
    loss_calls,        \* (predictions, labels) of each _classification_loss call
    collection_reads,  \* variable collections read by the last restore_map
    fe_calls           \* calls of the feature extractor's preprocess: (arg, result)

vars == <<self, inputs, global_variables, prediction_dict, called, raised,
          returned, psp_trace, keys_read, loss_calls, collection_reads, fe_calls>>

\* ---- tensors and the framework's operations

\* an operation of the graph and its arguments (a sequence of integers)
Op(name, args) == [op |-> name, args |-> args]

Tensor(dtype, h, w, c, ops) == [dtype |-> dtype, h |-> h, w |-> w, c |-> c, ops |-> ops]

CeilDiv(a, b) == (a + b - 1) \div b

\* slim.avg_pool2d, padding VALID (slim's default)
avg_pool2d(t, kernel_size, stride) ==
    Tensor(t.dtype,
           (t.h - kernel_size[1]) \div stride[1] + 1,
           (t.w - kernel_size[2]) \div stride[2] + 1,
           t.c,
           Append(t.ops, Op("avg_pool2d", kernel_size \o stride)))

\* libs.compressible_ops.conv2d: a slim convolution with padding SAME whose
\* number of filters is num_outputs scaled by the compression ratio
conv2d(t, num_outputs, kernel_size, stride, compression_ratio) ==
    Tensor(t.dtype, CeilDiv(t.h, stride), CeilDiv(t.w, stride),
           num_outputs * compression_ratio,
           Append(t.ops, Op("conv2d", <<num_outputs, kernel_size, stride>>)))

\* tf.image.resize_bilinear(images, size, align_corners=True)
resize_bilinear(t, size) ==
    Tensor(t.dtype, size[1], size[2], t.c,
           Append(t.ops, Op("resize_bilinear", size)))

\* tf.image.resize_nearest_neighbor(images, size, align_corners=True)
resize_nearest_neighbor(t, size) ==
    Tensor(t.dtype, size[1], size[2], t.c,
           Append(t.ops, Op("resize_nearest_neighbor", size)))

RECURSIVE SumChannels(_)
SumChannels(ts) == IF ts = <<>> THEN 0 ELSE Head(ts).c + SumChannels(Tail(ts))

\* tf.concat(values, axis=-1): the values agree on every other axis
concat(ts) ==
    Tensor(ts[1].dtype, ts[1].h, ts[1].w, SumChannels(ts),
           Append(ts[1].ops, Op("concat", <<Len(ts)>>)))

\* ---- the keys (properties of PSPNetArchitecture)

main_class_predictions_key == "class_predictions"

aux_predictions_key == "aux_predictions"

main_loss_key == "loss"

aux_loss_key == "aux_loss"

\* ---- PSPNetFeatureExtractor.extract_features: abstract in the source; a backbone
\* whose logits and auxiliary output are at stride _features_stride
extract_features(fe, preprocessed_inputs) ==
    [backbone_logits |->
         Tensor("float32",
                CeilDiv(preprocessed_inputs.h, fe._features_stride),
                CeilDiv(preprocessed_inputs.w, fe._features_stride),
                backbone_channels,
                Append(preprocessed_inputs.ops, Op("backbone", <<fe._features_stride>>))),
     psp_aux_out |->
         Tensor("float32",
                CeilDiv(preprocessed_inputs.h, fe._features_stride),
                CeilDiv(preprocessed_inputs.w, fe._features_stride),
                aux_channels,
                Append(preprocessed_inputs.ops, Op("backbone_aux", <<fe._features_stride>>)))]

\* ---- PSPNetArchitecture._dynamic_interpolation

\* the zoom as a plain multiplication of the size
_dynamic_interpolation_scaled(features_to_upsample, s_factor, z_factor) ==
    LET shrink_h == (features_to_upsample.h - 1) * s_factor + 1
        shrink_w == (features_to_upsample.w - 1) * s_factor + 1
    IN  resize_bilinear(features_to_upsample, <<shrink_h * z_factor, shrink_w * z_factor>>)

_dynamic_interpolation(features_to_upsample, s_factor, z_factor) ==
    LET input_h == features_to_upsample.h
        input_w == features_to_upsample.w
        shrink_h == (input_h - 1) * s_factor + 1
        shrink_w == (input_w - 1) * s_factor + 1
        zoom_h == shrink_h + (shrink_h - 1) * (z_factor - 1)
        zoom_w == shrink_w + (shrink_w - 1) * (z_factor - 1)
    IN  resize_bilinear(features_to_upsample, <<zoom_h, zoom_w>>)

\* ---- PSPNetArchitecture._pspnet_pspmodule

\* the loop with each branch pooled from the previous branch
RECURSIVE psp_branches_chained(_, _, _, _)
psp_branches_chained(input_features, pooled_features, factors, branch_outputs) ==
    IF factors = <<>> THEN branch_outputs
    ELSE LET pooling_factor == Head(factors)
             input_pooling_shape == <<input_features.h \div pooling_factor,
                                      input_features.w \div pooling_factor>>
             pooled == avg_pool2d(pooled_features, input_pooling_shape,
                                  input_pooling_shape)
             convolved == conv2d(pooled, psp_branch_channels, 1, 1, 1)
             resized == resize_bilinear(convolved, <<input_features.h, input_features.w>>)
         IN  psp_branches_chained(input_features, resized, Tail(factors),
                                  Append(branch_outputs, resized))

\* the loop over self._pooling_factors; pooled_features is the loop's variable
RECURSIVE psp_branches(_, _, _, _)
psp_branches(input_features, pooled_features, factors, branch_outputs) ==
    IF factors = <<>> THEN branch_outputs
    ELSE LET pooling_factor == Head(factors)
             input_h == input_features.h
             input_w == input_features.w
             output_pooling_shape == <<input_h, input_w>>
             input_pooling_shape == <<input_h \div pooling_factor,
                                      input_w \div pooling_factor>>
             pooled == avg_pool2d(input_features, input_pooling_shape,
                                  input_pooling_shape)
             convolved == conv2d(pooled, psp_branch_channels, 1, 1, 1)
             resized == resize_bilinear(convolved, output_pooling_shape)
         IN  psp_branches(input_features, resized, Tail(factors),
                          Append(branch_outputs, resized))

\* a pooling window of size 0 is rejected by the framework
BadWindow(input_features, factors) ==
    \E i \in 1..Len(factors) :
        \/ input_features.h \div factors[i] = 0
        \/ input_features.w \div factors[i] = 0

_pspnet_pspmodule(obj, input_features) ==
    IF BadWindow(input_features, obj._pooling_factors)
    THEN [raised |-> "ValueError", input |-> input_features,
          branch_outputs |-> <<input_features>>, branch_merge |-> input_features,
          final_output |-> input_features]
    ELSE LET branch_outputs == psp_branches(input_features, input_features,
                                            obj._pooling_factors, <<input_features>>)
             branch_merge == concat(branch_outputs)
             final_output == conv2d(branch_merge, psp_branch_channels, 3, 1, filter_scale)
         IN  [raised |-> "none", input |-> input_features,
              branch_outputs |-> branch_outputs, branch_merge |-> branch_merge,
              final_output |-> final_output]

\* ---- PSPNetArchitecture.predict

\* the auxiliary branch built whenever the model is training
builds_aux_predictions_training(obj) == obj._is_training

\* the condition of the auxiliary branch
builds_aux_predictions(obj) == obj._is_training /\ obj._use_aux_loss

predict(obj, preprocessed_inputs) ==
    LET features == extract_features(obj._feature_extractor, preprocessed_inputs)
        psp == _pspnet_pspmodule(obj, features.backbone_logits)
        logits == conv2d(psp.final_output, num_classes, 1, 1, 1)
        predictions == IF ~obj._is_training
                       THEN _dynamic_interpolation(logits, 1, output_zoom_factor)
                       ELSE logits
        main_dict == main_class_predictions_key :> predictions
        aux_preds == conv2d(features.psp_aux_out, num_classes, 1, 1, 1)
        full_dict == IF builds_aux_predictions(obj)
                     THEN main_dict @@ (aux_predictions_key :> aux_preds)
                     ELSE main_dict
    IN  IF psp.raised # "none"
        THEN [raised |-> psp.raised, value |-> <<>>, psp |-> psp]
        ELSE [raised |-> "none", value |-> full_dict, psp |-> psp]

\* ---- PSPNetArchitecture.loss

_resize_labels_to_logits(labels, logits) ==
    resize_nearest_neighbor(labels, <<logits.h, logits.w>>)

\* a loss value: the weight times the result of the n-th _classification_loss call
LossValue(weight, n) == [weight |-> weight, call |-> n]

\* the labels resized to the predictions as the dictionary holds them
loss_term_labels_first(obj, preds) ==
    LET scaled_labels == _resize_labels_to_logits(obj._groundtruth_labels, preds)
        upsampled == IF obj._upsample_train_logits
                     THEN _dynamic_interpolation(preds, 1, output_zoom_factor)
                     ELSE preds
    IN  [preds |-> upsampled, labels |-> scaled_labels]

\* one loss term: the optional upsampling, the resize of the labels, and the
\* arguments of the _classification_loss call
loss_term(obj, preds) ==
    LET upsampled == IF obj._upsample_train_logits
                     THEN _dynamic_interpolation(preds, 1, output_zoom_factor)
                     ELSE preds
        scaled_labels == _resize_labels_to_logits(obj._groundtruth_labels, upsampled)
    IN  [preds |-> upsampled, labels |-> scaled_labels]

\* the auxiliary loss computed whenever it is configured
computes_aux_loss_configured(obj) == obj._use_aux_loss

\* the condition of the auxiliary loss
computes_aux_loss(obj) == obj._use_aux_loss /\ obj._is_training

loss(obj, pdict) ==
    IF main_class_predictions_key \notin DOMAIN pdict
    THEN [raised |-> "KeyError", value |-> <<>>,
          keys_read |-> <<main_class_predictions_key>>, calls |-> <<>>]
    ELSE
    LET main_call == loss_term(obj, pdict[main_class_predictions_key])
        main_losses == main_loss_key :> LossValue(obj._main_loss_weight, 1)
    IN  IF ~computes_aux_loss(obj)
        THEN [raised |-> "none", value |-> main_losses,
              keys_read |-> <<main_class_predictions_key>>,
              calls |-> <<main_call>>]
        ELSE IF aux_predictions_key \notin DOMAIN pdict
        THEN [raised |-> "KeyError", value |-> <<>>,
              keys_read |-> <<main_class_predictions_key, aux_predictions_key>>,
              calls |-> <<main_call>>]
        ELSE
        LET aux_call == loss_term(obj, pdict[aux_predictions_key])
        IN  [raised |-> "none",
             value |-> main_losses @@ (aux_loss_key :> LossValue(obj._aux_loss_weight, 2)),
             keys_read |-> <<main_class_predictions_key, aux_predictions_key>>,
             calls |-> <<main_call, aux_call>>]

\* ---- PSPNetArchitecture.preprocess

\* PSPNetFeatureExtractor.preprocess: abstract in the source; some float32 image
\* of the input's size
fe_preprocess(fe, raw_inputs) ==
    Tensor("float32", raw_inputs.h, raw_inputs.w, raw_inputs.c,
           Append(raw_inputs.ops, Op("fe_preprocess", <<>>)))

\* preprocess accepting every floating-point dtype
preprocess_any_float(obj, x) ==
    IF x.dtype \notin {"float16", "float32", "float64"}
    THEN [raised |-> "ValueError", value |-> <<>>, fe_calls |-> <<>>]
    ELSE LET result == fe_preprocess(obj._feature_extractor, x)
         IN  [raised |-> "none", value |-> result,
              fe_calls |-> <<[arg |-> x, result |-> result]>>]

\* inputs.dtype is a DType, interned by the framework: `is not` is inequality
preprocess(obj, x) ==
    IF x.dtype # "float32"
    THEN [raised |-> "ValueError", value |-> <<>>, fe_calls |-> <<>>]
    ELSE LET result == fe_preprocess(obj._feature_extractor, x)
         IN  [raised |-> "none", value |-> result,
              fe_calls |-> <<[arg |-> x, result |-> result]>>]

\* ---- PSPNetArchitecture.restore_map

\* names are sequences of characters
IsPrefix(p, s) == Len(p) <= Len(s) /\ SubSeq(s, 1, Len(p)) = p

\* str.startswith
startswith(s, p) == IsPrefix(p, s)

\* str.replace(old, ''): every occurrence of old, left to right, is removed
RECURSIVE remove_all(_, _)
remove_all(s, old) ==
    IF s = <<>> THEN <<>>
    ELSE IF IsPrefix(old, s) THEN remove_all(SubSeq(s, Len(old) + 1, Len(s)), old)
    ELSE <<Head(s)>> \o remove_all(Tail(s), old)

\* FastSegmentationModel.shared_feature_extractor_scope
shared_feature_extractor_scope == <<"F", "E">>

\* d[key] = value on a dict
DictSet(d, key, value) ==
    [k \in DOMAIN d \cup {key} |-> IF k = key THEN value ELSE d[k]]

\* PSPNetFeatureExtractor.restore_from_classif_checkpoint_fn, over the variables
\* of tf.global_variables() in order
RECURSIVE restore_from_classif_checkpoint_fn(_, _)
restore_from_classif_checkpoint_fn(scope_name, variables) ==
    IF variables = <<>> THEN <<>>
    ELSE LET n == Len(variables)
             variable == variables[n]
             before == restore_from_classif_checkpoint_fn(scope_name,
                                                          SubSeq(variables, 1, n - 1))
         IN  IF startswith(variable, scope_name)
             THEN DictSet(before, remove_all(variable, scope_name \o <<"/">>), variable)
             ELSE before

\* Variable.name: the op's name and the output index
tensor_name(variable) == variable \o <<":", "0">>

\* whether a variable is in one of the scopes: the collection is filtered
\* with re.match(scope, name)
InScopes(variable, scopes) ==
    \E i \in 1..Len(scopes) : IsPrefix(scopes[i], tensor_name(variable))

\* slim.get_variables_to_restore(exclude=...): the variables outside the
\* excluded scopes
get_variables_to_restore(variables, exclude) ==
    SelectSeq(variables, LAMBDA v : ~InScopes(v, exclude))

default_fine_tune_checkpoint_type == "classification"

global_step == <<"g", "l", "o", "b", "a", "l", "_", "s", "t", "e", "p">>

\* restore_map collecting the variables before it validates the type
restore_map_collects_first(obj, variables, fine_tune_checkpoint_type) ==
    LET variables_to_restore == get_variables_to_restore(variables, <<global_step>>)
    IN  IF fine_tune_checkpoint_type \notin {"segmentation", "classification"}
        THEN [raised |-> "ValueError", value |-> <<>>,
              reads |-> <<"slim.get_variables_to_restore">>]
        ELSE IF fine_tune_checkpoint_type = "classification"
        THEN [raised |-> "none",
              value |-> restore_from_classif_checkpoint_fn(
                            shared_feature_extractor_scope, variables),
              reads |-> <<"slim.get_variables_to_restore", "tf.global_variables">>]
        ELSE [raised |-> "none", value |-> variables_to_restore,
              reads |-> <<"slim.get_variables_to_restore">>]

restore_map(obj, variables, fine_tune_checkpoint_type) ==
    IF fine_tune_checkpoint_type \notin {"segmentation", "classification"}
    THEN [raised |-> "ValueError", value |-> <<>>, reads |-> <<>>]
    ELSE IF fine_tune_checkpoint_type = "classification"
    THEN [raised |-> "none",
          value |-> restore_from_classif_checkpoint_fn(
                        shared_feature_extractor_scope, variables),
          reads |-> <<"tf.global_variables">>]
    ELSE LET exclude_list == <<global_step>>
         IN  [raised |-> "none",
              value |-> get_variables_to_restore(variables, exclude_list),
              reads |-> <<"slim.get_variables_to_restore">>]

\* ---- the objects and inputs of the model

Image(dtype, h, w) == Tensor(dtype, h, w, 3, <<Op("image", <<h, w>>)>>)

Labels(h, w) == Tensor("int32", h, w, 1, <<Op("labels", <<h, w>>)>>)

\* PSPNetArchitecture.__init__ and PSPNetFeatureExtractor.__init__, with the
\* ground truth the harness provides
PSPNetArchitecture(is_training, pooling_factors, use_aux_loss, upsample_train_logits, labels) ==
    [_is_training |-> is_training,
     _pooling_factors |-> pooling_factors,
     _use_aux_loss |-> use_aux_loss,
     _main_loss_weight |-> 1,
     _aux_loss_weight |-> 0,
     _upsample_train_logits |-> upsample_train_logits,
     _feature_extractor |-> [_is_training |-> is_training,
                             _features_stride |-> features_stride],
     _groundtruth_labels |-> labels]

Dims == 1..MaxDim

FactorLists == UNION {[1..n -> 1..MaxFactor] : n \in 0..MaxFactors}

DTypes == {"float32", "float64", "float16", "uint8", "int32"}

CheckpointTypes == {"segmentation", "classification", "Segmentation",
                    "detection", ""}

\* names a graph may hold: variables inside and outside the feature
\* extractor's scope, and the training step counters
VariableNames ==
    {<<"F", "E", "/", "w">>,
     <<"F", "E", "/", "F", "E", "/", "w">>,
     <<"F", "E", "x", "/", "w">>,
     <<"P", "/", "w">>,
     global_step,
     global_step \o <<"_", "1">>}

NoDuplicates(s) == \A i, j \in 1..Len(s) : i # j => s[i] # s[j]

VariableLists ==
    {s \in UNION {[1..n -> VariableNames] : n \in 0..MaxVars} : NoDuplicates(s)}

DefaultModel == PSPNetArchitecture(TRUE, <<1, 2>>, TRUE, FALSE, Labels(1, 1))

\* a call of a method of the model and its argument
Call(method, arg) == [method |-> method, arg |-> arg]

NoCall ==
    /\ called = Call("none", "")
    /\ raised = "none"
    /\ returned = <<>>
    /\ prediction_dict = <<>>
    /\ psp_trace = <<>>
    /\ keys_read = <<>>
    /\ loss_calls = <<>>
    /\ collection_reads = <<>>
    /\ fe_calls = <<>>

\* a model under every configuration, with a preprocessed image and its labels
Init ==
    /\ \E h \in Dims, w \in Dims :
          /\ inputs = Image("float32", h, w)
          /\ \E is_training \in BOOLEAN, use_aux_loss \in BOOLEAN,
                upsample_train_logits \in BOOLEAN,
                pooling_factors \in FactorLists :
                self = PSPNetArchitecture(is_training, pooling_factors, use_aux_loss,
                                          upsample_train_logits, Labels(h, w))
    /\ global_variables = <<>>
    /\ NoCall

\* a model in a graph with some variables
InitRestore ==
    /\ self = DefaultModel
    /\ inputs = Image("float32", 1, 1)
    /\ global_variables \in VariableLists
    /\ NoCall

\* a model and a raw image of some dtype
InitPreprocess ==
    /\ self = DefaultModel
    /\ \E dtype \in DTypes, h \in Dims, w \in Dims : inputs = Image(dtype, h, w)
    /\ global_variables = <<>>
    /\ NoCall

Preprocess ==
    LET r == preprocess(self, inputs)
    IN  /\ called' = Call("preprocess", "inputs")
        /\ raised' = r.raised
        /\ returned' = r.value
        /\ fe_calls' = r.fe_calls
        /\ UNCHANGED <<self, inputs, global_variables, prediction_dict, psp_trace,
                       keys_read, loss_calls, collection_reads>>

Predict ==
    LET r == predict(self, inputs)
    IN  /\ called' = Call("predict", "preprocessed_inputs")
        /\ raised' = r.raised
        /\ returned' = r.value
        /\ psp_trace' = r.psp
        /\ prediction_dict' = IF r.raised = "none" THEN r.value ELSE prediction_dict
        /\ keys_read' = <<>>
        /\ loss_calls' = <<>>
        /\ UNCHANGED <<self, inputs, global_variables, collection_reads, fe_calls>>

\* loss on the dictionary the last predict returned
Loss ==
    /\ DOMAIN prediction_dict # {}
    /\ LET r == loss(self, prediction_dict)
       IN  /\ called' = Call("loss", "prediction_dict")
           /\ raised' = r.raised
           /\ returned' = r.value
           /\ keys_read' = r.keys_read
           /\ loss_calls' = r.calls
           /\ UNCHANGED <<self, inputs, global_variables, prediction_dict, psp_trace,
                          collection_reads, fe_calls>>

RestoreMap ==
    \E fine_tune_checkpoint_type \in CheckpointTypes :
        LET r == restore_map(self, global_variables, fine_tune_checkpoint_type)
        IN  /\ called' = Call("restore_map", fine_tune_checkpoint_type)
            /\ raised' = r.raised
            /\ returned' = r.value
            /\ collection_reads' = r.reads
            /\ UNCHANGED <<self, inputs, global_variables, prediction_dict, psp_trace,
                           keys_read, loss_calls, fe_calls>>

\* restore_map(): the parameter takes its default
RestoreMapDefault ==
    LET r == restore_map(self, global_variables, default_fine_tune_checkpoint_type)
    IN  /\ called' = Call("restore_map", "<default>")
        /\ raised' = r.raised
        /\ returned' = r.value
        /\ collection_reads' = r.reads
        /\ UNCHANGED <<self, inputs, global_variables, prediction_dict, psp_trace,
                       keys_read, loss_calls, fe_calls>>

Next == Predict \/ Loss

Spec == Init /\ [][Next]_vars

NextRestore == RestoreMap \/ RestoreMapDefault

SpecRestore == InitRestore /\ [][NextRestore]_vars

NextPreprocess == Preprocess

SpecPreprocess == InitPreprocess /\ [][NextPreprocess]_vars

\* ---- the claims

Returned(method) == called.method = method /\ raised = "none"

\* C1: the dictionary predict returns has the key 'class_predictions', has the
\* key 'aux_predictions' exactly when is_training and use_aux_loss are both true,
\* and has no other key.
PredictKeys ==
    Returned("predict") =>
        DOMAIN returned =
            {"class_predictions"} \cup
            (IF self._is_training /\ self._use_aux_loss
             THEN {"aux_predictions"} ELSE {})

PredictKeysWitness ==
    /\ Returned("predict")
    /\ self._is_training /\ self._use_aux_loss
    /\ DOMAIN returned = {"class_predictions", "aux_predictions"}

EvalPredict == Returned("predict") /\ ~self._is_training

\* C2 as stated: in evaluation mode, with the backbone's logits at stride 8, the
\* 'class_predictions' map has the input's height and width.
EvalPredictionsHaveInputSize ==
    EvalPredict =>
        /\ returned["class_predictions"].h = inputs.h
        /\ returned["class_predictions"].w = inputs.w

\* C2 amended: in evaluation mode, with the backbone's logits at stride 8, the
\* 'class_predictions' map is 8*ceil(H/8) - 7 high and 8*ceil(W/8) - 7 wide;
\* that is the input's H (W) exactly when H (W) is 1 modulo 8.
EvalPredictionsZoomedSize ==
    EvalPredict =>
        LET p == returned["class_predictions"]
        IN  /\ p.h = 8 * ((inputs.h + 7) \div 8) - 7
            /\ p.w = 8 * ((inputs.w + 7) \div 8) - 7
            /\ p.h = inputs.h <=> inputs.h % 8 = 1
            /\ p.w = inputs.w <=> inputs.w % 8 = 1

EvalPredictionsZoomedWitness ==
    /\ EvalPredict
    /\ inputs.h = 9 /\ inputs.w = 12
    /\ returned["class_predictions"].h = 9
    /\ returned["class_predictions"].w = 9

\* C3: loss on the dictionary predict returned reads no key predict did not
\* produce (so raises no KeyError), and the losses it returns have the key 'loss'
\* and have the key 'aux_loss' exactly when use_aux_loss and is_training are
\* both true.
LossKeys ==
    called.method = "loss" =>
        /\ raised = "none"
        /\ \A i \in 1..Len(keys_read) : keys_read[i] \in DOMAIN prediction_dict
        /\ DOMAIN returned =
               {"loss"} \cup
               (IF self._use_aux_loss /\ self._is_training THEN {"aux_loss"} ELSE {})

LossKeysWitness ==
    /\ Returned("loss")
    /\ self._upsample_train_logits
    /\ keys_read = <<"class_predictions", "aux_predictions">>
    /\ DOMAIN returned = {"loss", "aux_loss"}

RestoreMapCalled(types) ==
    /\ called.method = "restore_map"
    /\ called.arg \in types

RestoreMapErrors ==
    RestoreMapCalled(CheckpointTypes \ {"segmentation", "classification"}) =>
        /\ raised = "ValueError"
        /\ collection_reads = <<>>

RestoreMapClassification ==
    RestoreMapCalled({"classification", "<default>"}) =>
        /\ raised = "none"
        /\ returned = restore_from_classif_checkpoint_fn(<<"F", "E">>, global_variables)

\* C4 as stated: restore_map raises ValueError for every type other than
\* 'segmentation' and 'classification', before reading a variable collection;
\* for 'classification' (the default) it returns the feature extractor's
\* mapping; for 'segmentation' it returns all variables except 'global_step'.
RestoreMapExceptGlobalStep ==
    /\ RestoreMapErrors
    /\ RestoreMapClassification
    /\ RestoreMapCalled({"segmentation"}) =>
           /\ raised = "none"
           /\ returned = SelectSeq(global_variables, LAMBDA v : v # global_step)

\* C4 amended: as stated, but for 'segmentation' it returns all variables except
\* those whose name starts with 'global_step'.
RestoreMapExceptGlobalStepScope ==
    /\ RestoreMapErrors
    /\ RestoreMapClassification
    /\ RestoreMapCalled({"segmentation"}) =>
           /\ raised = "none"
           /\ returned = SelectSeq(global_variables,
                                   LAMBDA v : ~IsPrefix(global_step, v))

RestoreMapWitness ==
    /\ RestoreMapCalled({"segmentation"})
    /\ Len(global_variables) = 3
    /\ \E i \in 1..3 : global_variables[i] = global_step
    /\ \E i \in 1..3 : global_variables[i] = global_step \o <<"_", "1">>
    /\ Len(returned) = 1

\* C5: preprocess raises ValueError when the dtype of its input is not float32,
\* without a call of the feature extractor's preprocess; for float32 it calls the
\* feature extractor's preprocess once, on its input, and returns the result.
PreprocessContract ==
    called.method = "preprocess" =>
        IF inputs.dtype = "float32"
        THEN /\ raised = "none"
             /\ Len(fe_calls) = 1
             /\ fe_calls[1].arg = inputs
             /\ returned = fe_calls[1].result
        ELSE /\ raised = "ValueError"
             /\ fe_calls = <<>>

PreprocessWitness ==
    /\ called.method = "preprocess"
    /\ inputs.dtype = "float64"
    /\ raised = "ValueError"

Zoomed(n) == 8 * (n - 1) + 1

Min(a, b) == IF a <= b THEN a ELSE b

FactorsFit ==
    \A i \in 1..Len(self._pooling_factors) :
        self._pooling_factors[i] <= Min(psp_trace.input.h, psp_trace.input.w)

\* C7: with every pooling factor f between 1 and min(h, w), the PSP module
\* concatenates 1 + len(pooling_factors) branches along the channel axis: its
\* input, then one branch per factor in the configured order, each the input
\* pooled with window and stride (floor(h/f), floor(w/f)), convolved and resized
\* to (h, w); the module's output has the height and width of its input.
PspModuleBranches ==
    (called.method = "predict" /\ FactorsFit) =>
        LET x == psp_trace.input
            fs == self._pooling_factors
            bs == psp_trace.branch_outputs
            out == psp_trace.final_output
        IN  /\ psp_trace.raised = "none"
            /\ Len(bs) = 1 + Len(fs)
            /\ bs[1] = x
            /\ \A i \in 1..Len(fs) :
                  /\ bs[i + 1].ops =
                         x.ops \o
                         <<Op("avg_pool2d", <<x.h \div fs[i], x.w \div fs[i],
                                              x.h \div fs[i], x.w \div fs[i]>>),
                           Op("conv2d", <<512, 1, 1>>),
                           Op("resize_bilinear", <<x.h, x.w>>)>>
                  /\ bs[i + 1].h = x.h
                  /\ bs[i + 1].w = x.w
                  /\ bs[i + 1].c = 512
            /\ psp_trace.branch_merge.c = x.c + 512 * Len(fs)
            /\ psp_trace.branch_merge.h = x.h
            /\ psp_trace.branch_merge.w = x.w
            /\ out.ops = x.ops \o <<Op("concat", <<1 + Len(fs)>>),
                                    Op("conv2d", <<512, 3, 1>>)>>
            /\ out.h = x.h
            /\ out.w = x.w

PspModuleWitness ==
    /\ called.method = "predict"
    /\ self._pooling_factors = <<2, 1>>
    /\ psp_trace.input.h = 3 /\ psp_trace.input.w = 2
    /\ Len(psp_trace.branch_outputs) = 3
    /\ psp_trace.final_output.h = 3 /\ psp_trace.final_output.w = 2

====
